---- MODULE Spec2Model ----
(***************************************************************************)
(* RFM customer segmentation (class CustomerSegmentation of                *)
(* 05_python_integration/04_business_analytics_examples/                   *)
(* 01_customer_segmentation.py) as a state machine.                        *)
(*                                                                         *)
(* Numbers.  days_since_order, Recency, order_total and Monetary are       *)
(* decimal numbers in the program; the model keeps them as integers in     *)
(* thousandths (1000 = one day, one currency unit), so that the            *)
(* DataFrame.round(2) of calculate_rfm_metrics is a real conversion        *)
(* (rounding to a multiple of 10).  Frequency is a plain count.  Quantile  *)
(* cut points are kept multiplied by 5, which makes the linear             *)
(* interpolation of Series.quantile exact in integers.                     *)
(*                                                                         *)
(* Tables.  A DataFrame is a sequence of records, one per row, in row      *)
(* order.                                                                  *)
(***************************************************************************)
EXTENDS Integers, Sequences, FiniteSets, TLC

VARIABLES
    pc,             \* position of the run: which stage has completed
    customer_data,  \* rows returned by extract_customer_data
    rfm_metrics,    \* table returned by calculate_rfm_metrics
    rfm_scores,     \* table returned by create_rfm_scores
    segments,       \* table returned by create_customer_segments
    segment_analysis, \* table returned by analyze_segment_characteristics
    error,          \* "none", or the method in which an exception was raised
    result,         \* value returned by run_complete_analysis ("none" before)
    sales_data,     \* rows returned by extract_sales_data
    ts_data,        \* series returned by prepare_time_series
    trends,         \* dictionary returned by analyze_trends
    forecasts,      \* the forecasts computed so far, by method name
    forecast_days,  \* the horizon passed to run_complete_forecast
    analysis_date,  \* self.analysis_date of the CustomerSegmentation object
    earlier         \* what the caller kept of an earlier run of the stages

\* the state of a CustomerSegmentation run
svars == <<customer_data, rfm_metrics, rfm_scores, segments, segment_analysis,
           analysis_date, earlier>>

\* the state of a SalesForecasting run
fvars == <<sales_data, ts_data, trends, forecasts, forecast_days>>

vars == <<pc, svars, fvars, error, result>>

----------------------------------------------------------------------------
(* Bounds of the model *)

MaxTxn == 3      \* transactions in one extract
MaxCustId == 2   \* customer ids 1..MaxCustId in the transaction feed
MaxCust == 5     \* rows of a metrics table handed directly to the scorer
MaxVal == 4      \* metric values 1..MaxVal (whole units) in such a table
MaxMult == 12    \* multipliers of the 100-customer cohort family
MaxSpan == 3     \* calendar days spanned by a short sales feed
MaxHorizon == 6  \* forecast_days ranges over 0..MaxHorizon

----------------------------------------------------------------------------
(* Generic helpers standing for pandas primitives *)

Range(s) == {s[i] : i \in DOMAIN s}

RECURSIVE SumSeq(_)
SumSeq(s) == IF s = <<>> THEN 0 ELSE Head(s) + SumSeq(Tail(s))

MinOf(S) == CHOOSE v \in S : \A w \in S : v <= w

\* j-th (0-based) element of the ascending sort of the sequence x
SortedAt(x, j) ==
    CHOOSE v \in Range(x) :
        /\ Cardinality({i \in DOMAIN x : x[i] < v}) <= j
        /\ j < Cardinality({i \in DOMAIN x : x[i] <= v})

\* the elements of a set of integers in ascending order
SortedKeys(S) ==
    [k \in 1..Cardinality(S) |->
        CHOOSE c \in S : Cardinality({d \in S : d < c}) = k - 1]

\* DataFrame.round(2) on a value in thousandths: nearest multiple of 10,
\* exact halves to the even hundredth (numpy.round)
Round2(x) ==
    LET q == x \div 10
        r == x % 10
    IN  IF r < 5 THEN 10 * q
        ELSE IF r > 5 THEN 10 * (q + 1)
        ELSE IF q % 2 = 0 THEN 10 * q ELSE 10 * (q + 1)

DigitChars == <<"0", "1", "2", "3", "4", "5", "6", "7", "8", "9">>

\* astype(str) of a non-negative integer: its decimal digits, one character
\* per element
RECURSIVE IntToStr(_)
IntToStr(n) ==
    IF n < 10 THEN <<DigitChars[n + 1]>>
    ELSE IntToStr(n \div 10) \o <<DigitChars[(n % 10) + 1]>>

----------------------------------------------------------------------------
(* extract_customer_data: the rows of the transaction feed *)

Customers == 1..MaxCustId

\* days_since_order = julianday('now') - julianday(order_date), thousandths
\* of a day; an order dated after 'now' has a negative value
DaysValues == {-250, 1504, 30000}

\* the days on which a CustomerSegmentation object is constructed
\* (datetime.now() of __init__), as day numbers
AnalysisDates == {366, 367}

\* order_total in thousandths of a currency unit (amounts are >= 0)
OrderTotals == {1004, 19995}

Transactions ==
    [customer_id : Customers, days_since_order : DaysValues,
     order_total : OrderTotals]

\* ORDER BY customer_id, order_date (a later order_date is a smaller
\* days_since_order)
OrderedByCustomerAndDate(s) ==
    \A i, j \in DOMAIN s :
        i < j => \/ s[i].customer_id < s[j].customer_id
                 \/ /\ s[i].customer_id = s[j].customer_id
                    /\ s[i].days_since_order >= s[j].days_since_order

\* the ordered result sets of exactly n rows
RECURSIVE ExtractsOfLength(_)
ExtractsOfLength(n) ==
    IF n = 0 THEN {<<>>}
    ELSE IF n = 1 THEN {<<t>> : t \in Transactions}
    ELSE UNION {{Append(s, t) : t \in {u \in Transactions :
                                          OrderedByCustomerAndDate(<<s[n - 1], u>>)}} :
                  s \in ExtractsOfLength(n - 1)}

Extracts == UNION {ExtractsOfLength(n) : n \in 0..MaxTxn}

----------------------------------------------------------------------------
(* calculate_rfm_metrics *)

\* the rows of one customer, in table order
RowsOf(df, c) == SelectSeq(df, LAMBDA t : t.customer_id = c)

\* calculate_rfm_metrics with 'nunique' in place of 'count': Frequency is the
\* number of distinct order dates
RfmMetricsDistinctDates(df) ==
    LET keys == SortedKeys({df[i].customer_id : i \in DOMAIN df})
    IN  [k \in DOMAIN keys |->
            LET rows == RowsOf(df, keys[k])
            IN  [customer_id |-> keys[k],
                 Recency     |-> Round2(MinOf({rows[i].days_since_order : i \in DOMAIN rows})),
                 Frequency   |-> Cardinality({rows[i].days_since_order : i \in DOMAIN rows}),
                 Monetary    |-> Round2(SumSeq([i \in DOMAIN rows |-> rows[i].order_total]))]]

\* calculate_rfm_metrics with Recency counted up to self.analysis_date in
\* place of the 'now' of the query
RfmMetricsToAnalysisDate(df) ==
    LET keys == SortedKeys({df[i].customer_id : i \in DOMAIN df})
        shift == 1000 * (analysis_date - MinOf(AnalysisDates))
    IN  [k \in DOMAIN keys |->
            LET rows == RowsOf(df, keys[k])
            IN  [customer_id |-> keys[k],
                 Recency     |-> Round2(MinOf({rows[i].days_since_order : i \in DOMAIN rows}) + shift),
                 Frequency   |-> Len(rows),
                 Monetary    |-> Round2(SumSeq([i \in DOMAIN rows |-> rows[i].order_total]))]]

\* df.groupby('customer_id').agg({min, count, sum}).round(2); groupby orders
\* the result by key; Frequency is an integer column, which round leaves alone
RfmMetrics(df) ==
    LET keys == SortedKeys({df[i].customer_id : i \in DOMAIN df})
    IN  [k \in DOMAIN keys |->
            LET rows == RowsOf(df, keys[k])
            IN  [customer_id |-> keys[k],
                 Recency     |-> Round2(MinOf({rows[i].days_since_order : i \in DOMAIN rows})),
                 Frequency   |-> Len(rows),
                 Monetary    |-> Round2(SumSeq([i \in DOMAIN rows |-> rows[i].order_total]))]]

----------------------------------------------------------------------------
(* pandas.qcut(x, 5, labels) and Series.rank(method='first') *)

Column(df, name) == [i \in DOMAIN df |-> df[i][name]]

\* 5 * x.quantile(k / 5), linear interpolation between the two order
\* statistics around position (n - 1) * k / 5
\* the quantile with interpolation='higher' in place of 'linear'
Quantile5Higher(x, k) ==
    LET pos == (Len(x) - 1) * k
        lo  == pos \div 5
        rem == pos % 5
    IN  IF rem = 0 THEN 5 * SortedAt(x, lo) ELSE 5 * SortedAt(x, lo + 1)

Quantile5(x, k) ==
    LET pos == (Len(x) - 1) * k
        lo  == pos \div 5
        rem == pos % 5
    IN  IF rem = 0 THEN 5 * SortedAt(x, lo)
        ELSE 5 * SortedAt(x, lo) + rem * (SortedAt(x, lo + 1) - SortedAt(x, lo))

\* the six bin edges (times 5) of qcut(x, 5)
QuantileEdges5(x) == [k \in 0..5 |-> Quantile5(x, k)]

\* _bins_to_cuts: bins.searchsorted(x, side='left'), then include_lowest;
\* the code of a value is its 1-based bin, 0 when it falls in no bin (NaN)
BinCode(bins, v) ==
    LET ids == IF 5 * v = bins[0] THEN 1
               ELSE Cardinality({k \in DOMAIN bins : bins[k] < 5 * v})
    IN  IF ids = 0 \/ ids = 6 THEN 0 ELSE ids

\* qcut raises ValueError("Bin edges must be unique") when two edges are
\* equal; the quantiles of an empty series are all NaN, the same error
qcut(x) ==
    IF Len(x) = 0 THEN [raised |-> TRUE, codes |-> <<>>]
    ELSE LET bins == QuantileEdges5(x)
         IN  IF Cardinality(Range(bins)) < 6
             THEN [raised |-> TRUE, codes |-> <<>>]
             ELSE [raised |-> FALSE,
                   codes  |-> [i \in DOMAIN x |-> BinCode(bins, x[i])]]

RankByPosition(x) == [i \in DOMAIN x |-> i]

\* Series.rank(method='first'): ascending rank, equal values ranked in the
\* order they appear in the series
RankFirst(x) ==
    [i \in DOMAIN x |->
        1 + Cardinality({j \in DOMAIN x : x[j] < x[i]})
          + Cardinality({j \in DOMAIN x : j < i /\ x[j] = x[i]})]

----------------------------------------------------------------------------
(* create_rfm_scores *)

\* the recency scale left in the direction of the other two
RecencyLabelsAscending == <<1, 2, 3, 4, 5>>

RecencyLabels == <<5, 4, 3, 2, 1>>

FrequencyLabels == <<1, 2, 3, 4, 5>>

\* the monetary scale reversed like the recency scale
MonetaryLabelsDescending == <<5, 4, 3, 2, 1>>

MonetaryLabels == <<1, 2, 3, 4, 5>>

RecencyCut(rfm_df) == qcut(Column(rfm_df, "Recency"))
FrequencyCut(rfm_df) == qcut(RankFirst(Column(rfm_df, "Frequency")))
MonetaryCut(rfm_df) == qcut(Column(rfm_df, "Monetary"))

\* the combined score with the frequency digit first
CombinedScoreFrequencyFirst(r, f, m) == IntToStr(f) \o IntToStr(r) \o IntToStr(m)

\* the combined score: R_Score.astype(str) + F_Score.astype(str) + M_Score.astype(str)
CombinedScore(r, f, m) == IntToStr(r) \o IntToStr(f) \o IntToStr(m)

\* The three qcut calls, astype(int) (which raises on a NaN label) and the
\* combined score.  raised = TRUE stands for the exception leaving the method.
RfmScores(rfm_df) ==
    LET rc == RecencyCut(rfm_df)
        fc == FrequencyCut(rfm_df)
        mc == MonetaryCut(rfm_df)
    IN  IF rc.raised \/ fc.raised \/ mc.raised
        THEN [raised |-> TRUE, table |-> <<>>]
        ELSE IF \E i \in DOMAIN rfm_df :
                    rc.codes[i] = 0 \/ fc.codes[i] = 0 \/ mc.codes[i] = 0
        THEN [raised |-> TRUE, table |-> <<>>]
        ELSE [raised |-> FALSE,
              table  |-> [i \in DOMAIN rfm_df |->
                  LET r == RecencyLabels[rc.codes[i]]
                      f == FrequencyLabels[fc.codes[i]]
                      m == MonetaryLabels[mc.codes[i]]
                  IN  [customer_id |-> rfm_df[i].customer_id,
                       Recency     |-> rfm_df[i].Recency,
                       Frequency   |-> rfm_df[i].Frequency,
                       Monetary    |-> rfm_df[i].Monetary,
                       R_Score     |-> r,
                       F_Score     |-> f,
                       M_Score     |-> m,
                       RFM_Score   |-> CombinedScore(r, f, m)]]]

----------------------------------------------------------------------------
(* create_customer_segments *)

\* assign_segment with the Loyal Customers test ahead of the Champions test
assign_segment_loyal_first(row) ==
    LET r == row.R_Score
        f == row.F_Score
        m == row.M_Score
    IN  IF r >= 3 /\ f >= 4 THEN "Loyal Customers"
        ELSE IF r >= 4 /\ f >= 4 /\ m >= 4 THEN "Champions"
        ELSE IF r >= 4 /\ f >= 2 /\ f <= 3 THEN "Potential Loyalists"
        ELSE IF r >= 4 /\ f <= 2 THEN "New Customers"
        ELSE IF r >= 3 /\ f >= 2 /\ f <= 3 THEN "Promising"
        ELSE IF r >= 2 /\ r <= 3 THEN "Need Attention"
        ELSE IF r >= 2 /\ f >= 2 THEN "About to Sleep"
        ELSE IF f >= 4 /\ m >= 4 THEN "At Risk"
        ELSE IF m >= 4 THEN "Cannot Lose Them"
        ELSE "Hibernating"

\* assign_segment without the final else: the function falls off its end
\* and returns None
assign_segment_no_else(row) ==
    LET r == row.R_Score
        f == row.F_Score
        m == row.M_Score
    IN  IF r >= 4 /\ f >= 4 /\ m >= 4 THEN "Champions"
        ELSE IF r >= 3 /\ f >= 4 THEN "Loyal Customers"
        ELSE IF r >= 4 /\ f >= 2 /\ f <= 3 THEN "Potential Loyalists"
        ELSE IF r >= 4 /\ f <= 2 THEN "New Customers"
        ELSE IF r >= 3 /\ f >= 2 /\ f <= 3 THEN "Promising"
        ELSE IF r >= 2 /\ r <= 3 THEN "Need Attention"
        ELSE IF r >= 2 /\ f >= 2 THEN "About to Sleep"
        ELSE IF f >= 4 /\ m >= 4 THEN "At Risk"
        ELSE IF m >= 4 THEN "Cannot Lose Them"
        ELSE "None"

assign_segment(row) ==
    LET r == row.R_Score
        f == row.F_Score
        m == row.M_Score
    IN  IF r >= 4 /\ f >= 4 /\ m >= 4 THEN "Champions"
        ELSE IF r >= 3 /\ f >= 4 THEN "Loyal Customers"
        ELSE IF r >= 4 /\ f >= 2 /\ f <= 3 THEN "Potential Loyalists"
        ELSE IF r >= 4 /\ f <= 2 THEN "New Customers"
        ELSE IF r >= 3 /\ f >= 2 /\ f <= 3 THEN "Promising"
        ELSE IF r >= 2 /\ r <= 3 THEN "Need Attention"
        ELSE IF r >= 2 /\ f >= 2 THEN "About to Sleep"
        ELSE IF f >= 4 /\ m >= 4 THEN "At Risk"
        ELSE IF m >= 4 THEN "Cannot Lose Them"
        ELSE "Hibernating"

\* segments = rfm_scores.copy(); segments['Segment'] = segments.apply(assign_segment, axis=1)
CustomerSegments(scores) ==
    [i \in DOMAIN scores |->
        [customer_id |-> scores[i].customer_id,
         Recency     |-> scores[i].Recency,
         Frequency   |-> scores[i].Frequency,
         Monetary    |-> scores[i].Monetary,
         R_Score     |-> scores[i].R_Score,
         F_Score     |-> scores[i].F_Score,
         M_Score     |-> scores[i].M_Score,
         RFM_Score   |-> scores[i].RFM_Score,
         Segment     |-> assign_segment(scores[i])]]

----------------------------------------------------------------------------
(* analyze_segment_characteristics *)

\* numpy.round of n / d (d > 0) to a whole number, exact halves to the even
\* one
RoundHalfEven(n, d) ==
    LET q == n \div d
        r == n % d
    IN  IF 2 * r < d THEN q
        ELSE IF 2 * r > d THEN q + 1
        ELSE IF q % 2 = 0 THEN q ELSE q + 1

SegmentAnalysisTruncated(segs) ==
    LET total_revenue == SumSeq(Column(segs, "Monetary"))
    IN  [g \in {segs[i].Segment : i \in DOMAIN segs} |->
            LET rows == SelectSeq(segs, LAMBDA t : t.Segment = g)
                Monetary_sum == Round2(SumSeq(Column(rows, "Monetary")))
            IN  [Customer_Count |-> Len(rows),
                 Monetary_sum   |-> Monetary_sum,
                 Revenue_Percentage |-> (1000 * Monetary_sum) \div total_revenue]]

\* groupby('Segment'): one row per segment that occurs, with its size, the
\* sum of Monetary rounded to 2 decimals (in thousandths) and the share of
\* that sum in the total Monetary, in percent rounded to 1 decimal (in
\* tenths of a percent).  The means and medians are left out.
SegmentAnalysis(segs) ==
    LET total_revenue == SumSeq(Column(segs, "Monetary"))
    IN  [g \in {segs[i].Segment : i \in DOMAIN segs} |->
            LET rows == SelectSeq(segs, LAMBDA t : t.Segment = g)
                Monetary_sum == Round2(SumSeq(Column(rows, "Monetary")))
            IN  [Customer_Count |-> Len(rows),
                 Monetary_sum   |-> Monetary_sum,
                 Revenue_Percentage |-> RoundHalfEven(1000 * Monetary_sum, total_revenue)]]

----------------------------------------------------------------------------
(* Metrics tables handed to create_rfm_scores *)

MetricNames == {"Recency", "Frequency", "Monetary"}

\* A table of n customers (ids 1..n).  The metrics named in S carry the
\* value profile v, so that customers may tie on them; every other metric
\* is distinct from customer to customer.
ProfileCohort(n, v, S) ==
    [i \in 1..n |->
        [customer_id |-> i,
         Recency     |-> 1000 * (IF "Recency" \in S THEN v[i] ELSE i),
         Frequency   |-> IF "Frequency" \in S THEN v[i] ELSE i,
         Monetary    |-> 1000 * (IF "Monetary" \in S THEN v[i] ELSE i)]]

SmallCohorts ==
    {ProfileCohort(n, v, S) :
        <<n, v, S>> \in UNION {{n} \X [1..n -> 1..MaxVal] \X (SUBSET MetricNames) :
                                n \in 0..MaxCust}}

\* the three customers A, B, C of the concrete scenario
ScenarioCohort ==
    << [customer_id |-> 1, Recency |-> 1000,   Frequency |-> 10, Monetary |-> 2000000],
       [customer_id |-> 2, Recency |-> 200000, Frequency |-> 1,  Monetary |-> 50000],
       [customer_id |-> 3, Recency |-> 30000,  Frequency |-> 4,  Monetary |-> 600000] >>

\* 100 customers with pairwise distinct Recency and pairwise distinct
\* Monetary (i -> i * p mod 101 permutes 1..100), unevenly spaced, in an
\* order that is not the order of the values; Frequency has many ties
HundredCohort(p) ==
    [i \in 1..100 |->
        [customer_id |-> i,
         Recency     |-> 10 * ((i * p) % 101) * ((i * p) % 101),
         Frequency   |-> 1 + ((i * p) % 7),
         Monetary    |-> 10 * ((i * (p + 1)) % 101) * ((i * (p + 1)) % 101)]]

HundredCohorts == {HundredCohort(p) : p \in 1..MaxMult}

Cohorts == SmallCohorts \cup {ScenarioCohort} \cup HundredCohorts

\* one-row score tables, one for every score triple
ScoreTables ==
    {<< [customer_id |-> 1, Recency |-> 0, Frequency |-> 1, Monetary |-> 0,
         R_Score |-> r, F_Score |-> f, M_Score |-> m,
         RFM_Score |-> CombinedScore(r, f, m)] >> :
        <<r, f, m>> \in (1..5) \X (1..5) \X (1..5)}

----------------------------------------------------------------------------
(* The run: run_complete_analysis calls the stages in order; an exception  *)
(* raised by a stage leaves run_complete_analysis, which returns nothing.  *)

\* the caller has kept nothing of an earlier run
NoEarlierRun ==
    [ran |-> FALSE, metrics |-> <<>>, scores |-> <<>>, segments |-> <<>>,
     error |-> "none"]

\* __init__: the object as constructed on the first of the days
NewObject ==
    /\ analysis_date = MinOf(AnalysisDates)
    /\ earlier = NoEarlierRun

\* no SalesForecasting run is in progress
ForecastIdle ==
    /\ sales_data = <<>>
    /\ ts_data = <<>>
    /\ trends = <<>>
    /\ forecasts = <<>>
    /\ forecast_days = 0

\* no CustomerSegmentation run is in progress
SegmentationIdle ==
    /\ customer_data = <<>>
    /\ rfm_metrics = <<>>
    /\ rfm_scores = <<>>
    /\ segments = <<>>
    /\ segment_analysis = <<>>
    /\ NewObject

Init ==
    /\ pc = "start"
    /\ customer_data = <<>>
    /\ rfm_metrics = <<>>
    /\ rfm_scores = <<>>
    /\ segments = <<>>
    /\ segment_analysis = <<>>
    /\ error = "none"
    /\ result = "none"
    /\ NewObject
    /\ ForecastIdle

extract_customer_data ==
    /\ pc = "start"
    /\ customer_data' \in Extracts
    /\ pc' = "extracted"
    /\ UNCHANGED <<rfm_metrics, rfm_scores, segments, segment_analysis, error, result>>
    /\ UNCHANGED <<fvars, analysis_date, earlier>>

calculate_rfm_metrics ==
    /\ pc = "extracted"
    /\ rfm_metrics' = RfmMetrics(customer_data)
    /\ pc' = "metrics"
    /\ UNCHANGED <<customer_data, rfm_scores, segments, segment_analysis, error, result>>
    /\ UNCHANGED <<fvars, analysis_date, earlier>>

create_rfm_scores_in_place ==
    /\ pc = "metrics"
    /\ LET s == RfmScores(rfm_metrics)
       IN  IF s.raised
           THEN /\ pc' = "failed"
                /\ error' = "create_rfm_scores"
                /\ UNCHANGED <<rfm_metrics, rfm_scores>>
           ELSE /\ pc' = "scored"
                /\ rfm_scores' = s.table
                /\ rfm_metrics' = s.table
                /\ UNCHANGED error
    /\ UNCHANGED <<customer_data, segments, segment_analysis, result>>
    /\ UNCHANGED <<fvars, analysis_date, earlier>>

create_rfm_scores ==
    /\ pc = "metrics"
    /\ LET s == RfmScores(rfm_metrics)
       IN  IF s.raised
           THEN /\ pc' = "failed"
                /\ error' = "create_rfm_scores"
                /\ UNCHANGED rfm_scores
           ELSE /\ pc' = "scored"
                /\ rfm_scores' = s.table
                /\ UNCHANGED error
    /\ UNCHANGED <<customer_data, rfm_metrics, segments, segment_analysis, result>>
    /\ UNCHANGED <<fvars, analysis_date, earlier>>

create_customer_segments_unscored ==
    /\ pc \in {"metrics", "scored"}
    /\ segments' = CustomerSegments(rfm_scores)
    /\ pc' = "segmented"
    /\ UNCHANGED <<customer_data, rfm_metrics, rfm_scores, segment_analysis, error, result>>
    /\ UNCHANGED <<fvars, analysis_date, earlier>>

create_customer_segments ==
    /\ pc = "scored"
    /\ segments' = CustomerSegments(rfm_scores)
    /\ pc' = "segmented"
    /\ UNCHANGED <<customer_data, rfm_metrics, rfm_scores, segment_analysis, error, result>>
    /\ UNCHANGED <<fvars, analysis_date, earlier>>

analyze_segment_characteristics ==
    /\ pc = "segmented"
    /\ segment_analysis' = SegmentAnalysis(segments)
    /\ pc' = "analyzed"
    /\ UNCHANGED <<customer_data, rfm_metrics, rfm_scores, segments, error, result>>
    /\ UNCHANGED <<fvars, analysis_date, earlier>>

\* steps 6 and 7 (dashboard, recommendations) and the return statement
run_complete_analysis_return ==
    /\ pc = "analyzed"
    /\ result' = [segments |-> segments, analysis |-> segment_analysis]
    /\ pc' = "done"
    /\ UNCHANGED <<customer_data, rfm_metrics, rfm_scores, segments, segment_analysis, error>>
    /\ UNCHANGED <<fvars, analysis_date, earlier>>

Next ==
    \/ extract_customer_data
    \/ calculate_rfm_metrics
    \/ create_rfm_scores
    \/ create_customer_segments
    \/ analyze_segment_characteristics
    \/ run_complete_analysis_return

Spec == Init /\ [][Next]_vars

\* create_rfm_scores and create_customer_segments on a metrics table
InitScore ==
    /\ pc = "metrics"
    /\ customer_data = <<>>
    /\ rfm_metrics \in Cohorts
    /\ rfm_scores = <<>>
    /\ segments = <<>>
    /\ segment_analysis = <<>>
    /\ error = "none"
    /\ result = "none"
    /\ NewObject
    /\ ForecastIdle

NextScore == create_rfm_scores \/ create_customer_segments

SpecScore == InitScore /\ [][NextScore]_vars

\* create_customer_segments on a score table
InitSegment ==
    /\ pc = "scored"
    /\ customer_data = <<>>
    /\ rfm_metrics = <<>>
    /\ rfm_scores \in ScoreTables
    /\ segments = <<>>
    /\ segment_analysis = <<>>
    /\ error = "none"
    /\ result = "none"
    /\ NewObject
    /\ ForecastIdle

NextSegment == create_customer_segments

SpecSegment == InitSegment /\ [][NextSegment]_vars

\* calculate_rfm_metrics, create_rfm_scores and create_customer_segments
\* called twice on the same rows: on one object, or on a second object
\* constructed on another day
InitRepeat ==
    /\ pc = "extracted"
    /\ customer_data \in Extracts
    /\ rfm_metrics = <<>>
    /\ rfm_scores = <<>>
    /\ segments = <<>>
    /\ segment_analysis = <<>>
    /\ error = "none"
    /\ result = "none"
    /\ analysis_date \in AnalysisDates
    /\ earlier = NoEarlierRun
    /\ ForecastIdle

\* the caller keeps the three tables (or the exception) of the run that has
\* ended and starts again from the same rows; the stages keep their tables in
\* locals, so nothing of the ended run stays on the object
call_stages_again ==
    /\ pc \in {"segmented", "failed"}
    /\ ~earlier.ran
    /\ earlier' = [ran |-> TRUE, metrics |-> rfm_metrics, scores |-> rfm_scores,
                   segments |-> segments, error |-> error]
    /\ analysis_date' \in AnalysisDates
    /\ pc' = "extracted"
    /\ rfm_metrics' = <<>>
    /\ rfm_scores' = <<>>
    /\ segments' = <<>>
    /\ error' = "none"
    /\ UNCHANGED <<customer_data, segment_analysis, result>>
    /\ UNCHANGED fvars

NextRepeat ==
    \/ calculate_rfm_metrics
    \/ create_rfm_scores
    \/ create_customer_segments
    \/ call_stages_again

SpecRepeat == InitRepeat /\ [][NextRepeat]_vars

----------------------------------------------------------------------------
(* Sales forecasting (class SalesForecasting of 02_sales_forecasting.py).  *)
(*                                                                         *)
(* Floating-point values are exact rationals [k |-> "num", n, d] in lowest *)
(* terms with d > 0, or the special values NaN, +inf and -inf, with the    *)
(* numpy rules for a zero divisor (x / 0 is +-inf, 0 / 0 is NaN; no        *)
(* exception).  daily_sales, order_count and avg_order_value of the feed   *)
(* are whole numbers of units.  Dates are day numbers, day 0 being Monday  *)
(* 2024-01-01.                                                             *)

RECURSIVE GCD(_, _)
GCD(a, b) == IF b = 0 THEN a ELSE GCD(b, a % b)

Abs(a) == IF a < 0 THEN 0 - a ELSE a

\* the float n / d for integers n and d # 0
Rat(n, d) ==
    LET g == GCD(Abs(n), Abs(d))
        sg == IF d < 0 THEN 0 - 1 ELSE 1
    IN  [k |-> "num", n |-> sg * (n \div g), d |-> sg * (d \div g)]

Whole(n) == [k |-> "num", n |-> n, d |-> 1]

NaN == [k |-> "nan", n |-> 0, d |-> 1]

PosInf == [k |-> "inf", n |-> 1, d |-> 1]

NegInf == [k |-> "inf", n |-> 0 - 1, d |-> 1]

IsNum(a) == a.k = "num"

\* -1, 0 or 1 for a float that is not NaN
SignOf(a) == IF a.n > 0 THEN 1 ELSE IF a.n < 0 THEN 0 - 1 ELSE 0

\* a + b (the common denominator is the least common multiple)
FAdd(a, b) ==
    IF a.k = "nan" \/ b.k = "nan" THEN NaN
    ELSE IF a.k = "inf" /\ b.k = "inf" THEN (IF a.n = b.n THEN a ELSE NaN)
    ELSE IF a.k = "inf" THEN a
    ELSE IF b.k = "inf" THEN b
    ELSE LET l == (a.d \div GCD(a.d, b.d)) * b.d
         IN  Rat(a.n * (l \div a.d) + b.n * (l \div b.d), l)

FNeg(a) == [k |-> a.k, n |-> 0 - a.n, d |-> a.d]

FSub(a, b) == FAdd(a, FNeg(b))

\* a * b (cross-reduced before multiplying)
FMul(a, b) ==
    IF a.k = "nan" \/ b.k = "nan" THEN NaN
    ELSE IF a.k = "inf" \/ b.k = "inf"
         THEN (IF SignOf(a) * SignOf(b) = 0 THEN NaN
               ELSE IF SignOf(a) * SignOf(b) > 0 THEN PosInf ELSE NegInf)
    ELSE LET g1 == GCD(Abs(a.n), b.d)
             g2 == GCD(Abs(b.n), a.d)
         IN  Rat((a.n \div g1) * (b.n \div g2), (a.d \div g2) * (b.d \div g1))

\* a / b
FDiv(a, b) ==
    IF a.k = "nan" \/ b.k = "nan" THEN NaN
    ELSE IF b.k = "inf" THEN (IF a.k = "inf" THEN NaN ELSE Whole(0))
    ELSE IF b.n = 0
         THEN (IF SignOf(a) = 0 THEN NaN ELSE IF SignOf(a) > 0 THEN PosInf ELSE NegInf)
    ELSE IF a.k = "inf"
         THEN (IF SignOf(a) * SignOf(b) > 0 THEN PosInf ELSE NegInf)
    ELSE FMul(a, Rat(b.d, b.n))

\* a > b; every comparison with NaN is false
FGreater(a, b) ==
    /\ a.k # "nan" /\ b.k # "nan"
    /\ LET c == FSub(a, b) IN c.k # "nan" /\ SignOf(c) > 0

\* a >= 0
FNonNegative(a) == a.k # "nan" /\ SignOf(a) >= 0

\* numpy.maximum(a, 0): NaN propagates
FMax0(a) == IF a.k = "nan" THEN NaN ELSE IF SignOf(a) < 0 THEN Whole(0) ELSE a

\* Series.mean() of a sequence of whole numbers: NaN for an empty one
MeanOf(x) == IF Len(x) = 0 THEN NaN ELSE Rat(SumSeq(x), Len(x))

\* the last k elements of a sequence (all of it when it is shorter): tail(k)
TailOf(x, k) ==
    IF Len(x) <= k THEN x ELSE SubSeq(x, Len(x) - k + 1, Len(x))

----------------------------------------------------------------------------
(* The calendar of a DatetimeIndex *)

IsLeapYear(y) == (y % 4 = 0 /\ y % 100 # 0) \/ y % 400 = 0

DaysInYear(y) == IF IsLeapYear(y) THEN 366 ELSE 365

DaysInMonth(y, m) ==
    IF m = 2 THEN (IF IsLeapYear(y) THEN 29 ELSE 28)
    ELSE IF m \in {4, 6, 9, 11} THEN 30 ELSE 31

\* <<year, 0-based day of the year>> of day number d, counting from year y
RECURSIVE SplitYear(_, _)
SplitYear(y, d) ==
    IF d < DaysInYear(y) THEN <<y, d>> ELSE SplitYear(y + 1, d - DaysInYear(y))

\* <<month, 0-based day of the month>> of the 0-based day d of year y
RECURSIVE SplitMonth(_, _, _)
SplitMonth(y, m, d) ==
    IF d < DaysInMonth(y, m) THEN <<m, d>> ELSE SplitMonth(y, m + 1, d - DaysInMonth(y, m))

\* the day number of 1 January of year y >= 2024
RECURSIVE YearStart(_)
YearStart(y) == IF y = 2024 THEN 0 ELSE YearStart(y - 1) + DaysInYear(y - 1)

YearOf(d) == SplitYear(2024, d)[1]

DayOfYear(d) == SplitYear(2024, d)[2] + 1

MonthOf(d) == SplitMonth(YearOf(d), 1, DayOfYear(d) - 1)[1]

DayOfMonth(d) == SplitMonth(YearOf(d), 1, DayOfYear(d) - 1)[2] + 1

\* dayofweek / weekday(): 0 = Monday
DayOfWeek(d) == d % 7

\* the number of ISO weeks of year y: 53 when 1 January is a Thursday, or a
\* Wednesday in a leap year
IsoWeeksInYear(y) ==
    LET jan1 == DayOfWeek(YearStart(y))
    IN  IF jan1 = 3 \/ (jan1 = 2 /\ IsLeapYear(y)) THEN 53 ELSE 52

\* isocalendar().week
IsoWeek(d) ==
    LET y == YearOf(d)
        w == (DayOfYear(d) - (DayOfWeek(d) + 1) + 10) \div 7
    IN  IF w < 1 THEN (IF y = 2024 THEN 52 ELSE IsoWeeksInYear(y - 1))
        ELSE IF w > IsoWeeksInYear(y) THEN 1
        ELSE w

----------------------------------------------------------------------------
(* Sales feeds: what extract_sales_data reads from the orders table, one   *)
(* row per calendar day that has orders                                    *)

\* <<daily_sales, order_count>> of one day with orders
DaySales == {<<0, 1>>, <<1, 1>>, <<3, 2>>}

\* first days of the short feeds: 2024-01-30, 2024-02-28 and 2024-12-28
StartDays == {29, 58, 362}

\* the row of day d: SUM(order_total), COUNT(*) and AVG(order_total)
SalesRow(d, v) ==
    [date |-> d, daily_sales |-> v[1], order_count |-> v[2],
     avg_order_value |-> Rat(v[1], v[2])]

\* GROUP BY DATE(order_date) ORDER BY date: distinct dates, ascending
SortedFeeds ==
    UNION {UNION {{[i \in 1..Cardinality(D) |->
                       SalesRow(SortedKeys(D)[i], f[SortedKeys(D)[i]])] :
                   f \in [D -> DaySales]} :
              D \in SUBSET (s..(s + MaxSpan - 1))} :
        s \in StartDays}

\* the same rows in any order, for calls that do not come from the query
Reorderings(df) ==
    {[i \in DOMAIN df |-> df[p[i]]] :
        p \in {q \in [DOMAIN df -> DOMAIN df] :
                  \A i, j \in DOMAIN df : i # j => q[i] # q[j]}}

SparseFeeds == UNION {Reorderings(df) : df \in SortedFeeds}

----------------------------------------------------------------------------
(* prepare_time_series *)

MaxOf(S) == CHOOSE v \in S : \A w \in S : v >= w

\* the exception prepare_time_series raises on df, "none" when it returns:
\* set_index('date') needs a column named date; date_range refuses the NaT
\* bounds of an empty frame; reindex refuses duplicate labels
PrepareRaises(df) ==
    IF df # <<>> /\ "date" \notin DOMAIN df[1] THEN "KeyError"
    ELSE IF df = <<>> THEN "ValueError"
    ELSE IF \E i, j \in DOMAIN df : i # j /\ df[i].date = df[j].date THEN "ValueError"
    ELSE "none"

DenseFillFromFirstRow(df) ==
    LET first == df[1].date
        last == df[Len(df)].date
    IN  [t \in 1..(last - first + 1) |->
            LET d == first + t - 1
            IN  IF \E i \in DOMAIN df : df[i].date = d
                THEN LET r == df[CHOOSE i \in DOMAIN df : df[i].date = d]
                     IN  [index |-> d, daily_sales |-> r.daily_sales,
                          order_count |-> r.order_count,
                          avg_order_value |-> r.avg_order_value]
                ELSE [index |-> d, daily_sales |-> 0, order_count |-> 0,
                      avg_order_value |-> Whole(0)]]

\* reindex(full_date_range, fill_value=0): one row per day from the first
\* to the last date, a day without a row getting 0 in every column
DenseFill(df) ==
    LET first == MinOf({df[i].date : i \in DOMAIN df})
        last == MaxOf({df[i].date : i \in DOMAIN df})
    IN  [t \in 1..(last - first + 1) |->
            LET d == first + t - 1
            IN  IF \E i \in DOMAIN df : df[i].date = d
                THEN LET r == df[CHOOSE i \in DOMAIN df : df[i].date = d]
                     IN  [index |-> d, daily_sales |-> r.daily_sales,
                          order_count |-> r.order_count,
                          avg_order_value |-> r.avg_order_value]
                ELSE [index |-> d, daily_sales |-> 0, order_count |-> 0,
                      avg_order_value |-> Whole(0)]]

\* Series.shift(k) at position t
Shifted(y, k, t) == IF t <= k THEN NaN ELSE Whole(y[t - k])

\* Series.rolling(window=w).mean() at position t
RollingMean(y, w, t) ==
    IF t < w THEN NaN ELSE Rat(SumSeq(SubSeq(y, t - w + 1, t)), w)

\* Series.pct_change(k) * 100 at position t
PctChange100(y, k, t) ==
    FMul(FSub(FDiv(Whole(y[t]), Shifted(y, k, t)), Whole(1)), Whole(100))

BoolInt(b) == IF b THEN 1 ELSE 0

\* the calendar, lag, moving-average and growth columns
AddFeatures(ts) ==
    LET y == [t \in DOMAIN ts |-> ts[t].daily_sales]
    IN  [t \in DOMAIN ts |->
            LET d == ts[t].index
            IN  [index |-> d,
                 daily_sales |-> ts[t].daily_sales,
                 order_count |-> ts[t].order_count,
                 avg_order_value |-> ts[t].avg_order_value,
                 year |-> YearOf(d),
                 month |-> MonthOf(d),
                 day_of_week |-> DayOfWeek(d),
                 day_of_year |-> DayOfYear(d),
                 week_of_year |-> IsoWeek(d),
                 is_weekend |-> BoolInt(DayOfWeek(d) \in {5, 6}),
                 is_month_start |-> BoolInt(DayOfMonth(d) = 1),
                 is_month_end |-> BoolInt(DayOfMonth(d) = DaysInMonth(YearOf(d), MonthOf(d))),
                 sales_lag_1 |-> Shifted(y, 1, t),
                 sales_lag_7 |-> Shifted(y, 7, t),
                 sales_lag_30 |-> Shifted(y, 30, t),
                 sales_ma_7 |-> RollingMean(y, 7, t),
                 sales_ma_30 |-> RollingMean(y, 30, t),
                 sales_ma_90 |-> RollingMean(y, 90, t),
                 sales_growth_7d |-> PctChange100(y, 7, t),
                 sales_growth_30d |-> PctChange100(y, 30, t)]]

\* the frame prepare_time_series returns when it does not raise
PrepareTimeSeries(df) == AddFeatures(DenseFill(df))

----------------------------------------------------------------------------
(* analyze_trends and the three forecast methods *)

window == 30

TrendDays == 90

\* ts_df['daily_sales'] as a sequence
Sales(ts) == [t \in DOMAIN ts |-> ts[t].daily_sales]

\* ts_df[ts_df[col] == v]['daily_sales']
SalesWhere(ts, col, v) ==
    LET Keep(r) == r[col] = v
    IN  Sales(SelectSeq(ts, Keep))

\* ts_df.groupby(col)['daily_sales'].mean(): the mean of each value of col
GroupMeans(ts, col) ==
    [v \in {ts[t][col] : t \in DOMAIN ts} |-> MeanOf(SalesWhere(ts, col, v))]

\* scipy.stats.linregress(numpy.arange(len(y)), y): slope is
\* cov(x, y) / var(x), which is 0 / 0 for a single point, and intercept is
\* mean(y) - slope * mean(x)
LinRegress(y) ==
    LET n == Len(y)
        x == [i \in 1..n |-> i - 1]
        ssxm == Rat(n * SumSeq([i \in 1..n |-> x[i] * x[i]]) - SumSeq(x) * SumSeq(x), n * n)
        ssxym == Rat(n * SumSeq([i \in 1..n |-> x[i] * y[i]]) - SumSeq(x) * SumSeq(y), n * n)
        slope == FDiv(ssxym, ssxm)
    IN  [slope |-> slope,
         intercept |-> FSub(MeanOf(y), FMul(slope, MeanOf(x)))]

\* the largest and the smallest of a non-empty family of numbers
FMaxOf(g) == CHOOSE a \in Range(g) : \A b \in Range(g) : ~FGreater(b, a)

FMinOf(g) == CHOOSE a \in Range(g) : \A b \in Range(g) : ~FGreater(a, b)

\* Series.idxmax() and Series.idxmin(): the first key, in key order
IdxMax(g) == MinOf({v \in DOMAIN g : g[v] = FMaxOf(g)})

IdxMin(g) == MinOf({v \in DOMAIN g : g[v] = FMinOf(g)})

RECURSIVE FSum(_)
FSum(x) == IF x = <<>> THEN Whole(0) ELSE FAdd(Head(x), FSum(Tail(x)))

\* Series.mean() of a family of numbers
FMeanOf(g) ==
    LET keys == SortedKeys(DOMAIN g)
    IN  FDiv(FSum([i \in DOMAIN keys |-> g[keys[i]]]), Whole(Cardinality(DOMAIN g)))

DayNames ==
    <<"Monday", "Tuesday", "Wednesday", "Thursday", "Friday", "Saturday", "Sunday">>

\* ts_df['daily_sales'].iloc[-60:-30]
PreviousWindow(y) ==
    IF Len(y) <= window THEN <<>>
    ELSE SubSeq(y, IF Len(y) <= 2 * window THEN 1 ELSE Len(y) - 2 * window + 1,
                Len(y) - window)

Growth30dUnguarded(recent_30d, previous_30d) ==
    FMul(FDiv(FSub(recent_30d, previous_30d), previous_30d), Whole(100))

\* (recent_30d - previous_30d) / previous_30d * 100 if previous_30d > 0 else 0
Growth30d(recent_30d, previous_30d) ==
    IF FGreater(previous_30d, Whole(0))
    THEN FMul(FDiv(FSub(recent_30d, previous_30d), previous_30d), Whole(100))
    ELSE Whole(0)

MonthlyVariationOverallMean(ts) ==
    LET monthly_avg == GroupMeans(ts, "month")
    IN  FMul(FDiv(FSub(FMaxOf(monthly_avg), FMinOf(monthly_avg)),
                  MeanOf(Sales(ts))), Whole(100))

\* (monthly_avg.max() - monthly_avg.min()) / monthly_avg.mean() * 100
MonthlyVariation(ts) ==
    LET monthly_avg == GroupMeans(ts, "month")
    IN  FMul(FDiv(FSub(FMaxOf(monthly_avg), FMinOf(monthly_avg)),
                  FMeanOf(monthly_avg)), Whole(100))

\* the trends dictionary (r_squared, p_value and strength, which are read
\* off the same regression, are left out)
AnalyzeTrends(ts) ==
    LET slope == LinRegress(Sales(ts)).slope
        monthly_avg == GroupMeans(ts, "month")
        dow_avg == GroupMeans(ts, "day_of_week")
        recent_30d == MeanOf(TailOf(Sales(ts), window))
        previous_30d == MeanOf(PreviousWindow(Sales(ts)))
    IN  [overall_trend |->
             [slope |-> slope,
              direction |-> IF FGreater(slope, Whole(0)) THEN "Increasing" ELSE "Decreasing"],
         seasonal |->
             [best_month |-> IdxMax(monthly_avg),
              worst_month |-> IdxMin(monthly_avg),
              monthly_variation |-> MonthlyVariation(ts),
              best_day |-> DayNames[IdxMax(dow_avg) + 1],
              worst_day |-> DayNames[IdxMin(dow_avg) + 1],
              weekend_vs_weekday |->
                  FDiv(MeanOf(SalesWhere(ts, "is_weekend", 1)),
                       MeanOf(SalesWhere(ts, "is_weekend", 0)))],
         growth |->
             [last_30d_growth |-> Growth30d(recent_30d, previous_30d),
              current_avg |-> recent_30d,
              previous_avg |-> previous_30d]]

SimpleMovingAverageForecastAllDays(ts, days, w) ==
    [i \in 1..days |-> RollingMean(Sales(ts), Len(ts), Len(ts))]

\* [last_ma] * forecast_days
SimpleMovingAverageForecast(ts, days, w) ==
    [i \in 1..days |-> RollingMean(Sales(ts), w, Len(ts))]

LinearTrendForecastAfterAverage(ts, days) ==
    IF "Moving Average" \in DOMAIN forecasts
    THEN forecasts["Moving Average"]
    ELSE LET recent_data == TailOf(Sales(ts), TrendDays)
             fit == LinRegress(recent_data)
         IN  [i \in 1..days |->
                 FMax0(FAdd(FMul(fit.slope, Whole(Len(recent_data) + i - 1)),
                            fit.intercept))]

LinearTrendForecastWholeSeries(ts, days) ==
    LET recent_data == Sales(ts)
        fit == LinRegress(recent_data)
    IN  [i \in 1..days |->
            FMax0(FAdd(FMul(fit.slope, Whole(Len(recent_data) + i - 1)), fit.intercept))]

\* numpy.maximum(slope * future_x + intercept, 0) over the last 90 days
LinearTrendForecast(ts, days) ==
    LET recent_data == TailOf(Sales(ts), TrendDays)
        fit == LinRegress(recent_data)
    IN  [i \in 1..days |->
            FMax0(FAdd(FMul(fit.slope, Whole(Len(recent_data) + i - 1)), fit.intercept))]

\* Series.get(key, 1.0) on the factors of the keys seen in the history
FactorOf(factors, key) ==
    IF key \in DOMAIN factors THEN factors[key] ELSE Whole(1)

\* the group means of col divided by the overall mean
SeasonalFactors(ts, col) ==
    LET means == GroupMeans(ts, col)
        overall_mean == MeanOf(Sales(ts))
    IN  [v \in DOMAIN means |-> FDiv(means[v], overall_mean)]

SeasonalForecastFromLastDate(ts, days) ==
    LET monthly_factors == SeasonalFactors(ts, "month")
        dow_factors == SeasonalFactors(ts, "day_of_week")
        base_forecast == LinearTrendForecast(ts, days)
    IN  [i \in 1..days |->
            LET date == ts[Len(ts)].index + i - 1
                seasonal_factor ==
                    FDiv(FAdd(FactorOf(monthly_factors, MonthOf(date)),
                              FactorOf(dow_factors, DayOfWeek(date))), Whole(2))
            IN  FMul(base_forecast[i], seasonal_factor)]

SeasonalForecastProduct(ts, days) ==
    LET base_forecast == LinearTrendForecast(ts, days)
    IN  [i \in 1..days |->
            LET date == ts[Len(ts)].index + i
            IN  FMul(base_forecast[i],
                     FMul(FactorOf(SeasonalFactors(ts, "month"), MonthOf(date)),
                          FactorOf(SeasonalFactors(ts, "day_of_week"), DayOfWeek(date))))]

\* base_forecast[i] * (month_factor + dow_factor) / 2 for the i-th day after
\* the last date
SeasonalForecast(ts, days) ==
    LET monthly_factors == SeasonalFactors(ts, "month")
        dow_factors == SeasonalFactors(ts, "day_of_week")
        base_forecast == LinearTrendForecast(ts, days)
    IN  [i \in 1..days |->
            LET date == ts[Len(ts)].index + i
                seasonal_factor ==
                    FDiv(FAdd(FactorOf(monthly_factors, MonthOf(date)),
                              FactorOf(dow_factors, DayOfWeek(date))), Whole(2))
            IN  FMul(base_forecast[i], seasonal_factor)]

----------------------------------------------------------------------------
(* The run: run_complete_forecast(forecast_days) *)

InitForecast ==
    /\ pc = "f_start"
    /\ SegmentationIdle
    /\ sales_data = <<>>
    /\ ts_data = <<>>
    /\ trends = <<>>
    /\ forecasts = <<>>
    /\ forecast_days \in 0..MaxHorizon
    /\ error = "none"
    /\ result = "none"

\* Step 1: the daily totals of the orders table, one row per day with orders
extract_sales_data ==
    /\ pc = "f_start"
    /\ \E df \in SortedFeeds : sales_data' = df
    /\ pc' = "f_extracted"
    /\ UNCHANGED <<svars, ts_data, trends, forecasts, forecast_days, error, result>>

\* Step 2: the dense daily series with its feature columns, or the exception
prepare_time_series ==
    /\ pc = "f_extracted"
    /\ IF PrepareRaises(sales_data) = "none"
       THEN /\ ts_data' = PrepareTimeSeries(sales_data)
            /\ pc' = "prepared"
            /\ UNCHANGED error
       ELSE /\ error' = PrepareRaises(sales_data)
            /\ pc' = "failed"
            /\ UNCHANGED ts_data
    /\ UNCHANGED <<svars, sales_data, trends, forecasts, forecast_days, result>>

\* prepare_time_series called on the frame it returned
prepare_time_series_again ==
    /\ pc = "prepared"
    /\ IF PrepareRaises(ts_data) = "none"
       THEN /\ ts_data' = PrepareTimeSeries(ts_data)
            /\ pc' = "prepared_again"
            /\ UNCHANGED error
       ELSE /\ error' = PrepareRaises(ts_data)
            /\ pc' = "failed"
            /\ UNCHANGED ts_data
    /\ UNCHANGED <<svars, sales_data, trends, forecasts, forecast_days, result>>

\* Step 3
analyze_trends ==
    /\ pc = "prepared"
    /\ trends' = AnalyzeTrends(ts_data)
    /\ pc' = "trended"
    /\ UNCHANGED <<svars, sales_data, ts_data, forecasts, forecast_days, error, result>>

\* Step 4, 'Moving Average'
simple_moving_average_forecast ==
    /\ pc = "trended"
    /\ forecasts' = ("Moving Average" :>
                        SimpleMovingAverageForecast(ts_data, forecast_days, window))
    /\ pc' = "averaged"
    /\ UNCHANGED <<svars, sales_data, ts_data, trends, forecast_days, error, result>>

\* Step 4, 'Linear Trend'
linear_trend_forecast ==
    /\ pc = "averaged"
    /\ forecasts' = forecasts @@
                        ("Linear Trend" :> LinearTrendForecast(ts_data, forecast_days))
    /\ pc' = "projected"
    /\ UNCHANGED <<svars, sales_data, ts_data, trends, forecast_days, error, result>>

\* Step 4, 'Seasonal'
seasonal_forecast ==
    /\ pc = "projected"
    /\ forecasts' = forecasts @@
                        ("Seasonal" :> SeasonalForecast(ts_data, forecast_days))
    /\ pc' = "forecasted"
    /\ UNCHANGED <<svars, sales_data, ts_data, trends, forecast_days, error, result>>

\* Steps 5 and 6 read the series, the trends and the forecasts; the run
\* returns them
run_complete_forecast_return ==
    /\ pc = "forecasted"
    /\ result' = [data |-> ts_data, trends |-> trends, forecasts |-> forecasts]
    /\ pc' = "f_done"
    /\ UNCHANGED <<svars, fvars, error>>

NextForecast ==
    \/ extract_sales_data
    \/ prepare_time_series
    \/ analyze_trends
    \/ simple_moving_average_forecast
    \/ linear_trend_forecast
    \/ seasonal_forecast
    \/ run_complete_forecast_return

SpecForecast == InitForecast /\ [][NextForecast]_vars

----------------------------------------------------------------------------
(* prepare_time_series as a function of any frame of daily rows with       *)
(* distinct dates, in any row order, and of its own result                 *)

InitPrepare ==
    /\ pc = "f_extracted"
    /\ SegmentationIdle
    /\ sales_data \in SparseFeeds
    /\ ts_data = <<>>
    /\ trends = <<>>
    /\ forecasts = <<>>
    /\ forecast_days = 0
    /\ error = "none"
    /\ result = "none"

NextPrepare ==
    \/ prepare_time_series
    \/ prepare_time_series_again

SpecPrepare == InitPrepare /\ [][NextPrepare]_vars

----------------------------------------------------------------------------
(* Histories of one to three months, long enough for the 30-day and        *)
(* 90-day windows: every day has orders                                    *)

Patterns == {"zero", "flat", "late", "early", "saw", "ramp", "weekend"}

\* daily_sales of the i-th of len days, day number d, under a pattern
DenseValue(pattern, i, len, d) ==
    CASE pattern = "zero" -> 0
      [] pattern = "flat" -> 1
      [] pattern = "late" -> IF i > len - window THEN 2 ELSE 0
      [] pattern = "early" -> IF i > len - window THEN 0 ELSE 2
      [] pattern = "saw" -> i % 3
      [] pattern = "ramp" -> (i - 1) \div window
      [] pattern = "weekend" -> BoolInt(DayOfWeek(d) \in {5, 6})

DenseLengths ==
    {1, 2, window - 1, window, window + 1, 2 * window - 1, 2 * window,
     2 * window + 1, TrendDays - 1, TrendDays, TrendDays + 1, TrendDays + MaxHorizon}

DenseFeed(start, len, pattern) ==
    [i \in 1..len |->
        SalesRow(start + i - 1, <<DenseValue(pattern, i, len, start + i - 1), 1>>)]

DenseFeeds ==
    {DenseFeed(s, len, p) : s \in StartDays, len \in DenseLengths, p \in Patterns}

InitDense ==
    /\ pc = "f_extracted"
    /\ SegmentationIdle
    /\ sales_data \in DenseFeeds
    /\ ts_data = <<>>
    /\ trends = <<>>
    /\ forecasts = <<>>
    /\ forecast_days \in 0..MaxHorizon
    /\ error = "none"
    /\ result = "none"

NextDense ==
    \/ prepare_time_series
    \/ analyze_trends
    \/ simple_moving_average_forecast
    \/ linear_trend_forecast

SpecDense == InitDense /\ [][NextDense]_vars

----------------------------------------------------------------------------
(* The three forecast methods called on one prepared series in any order,  *)
(* each at most once                                                       *)

InitMethods ==
    /\ pc = "f_extracted"
    /\ SegmentationIdle
    /\ sales_data \in SortedFeeds
    /\ ts_data = <<>>
    /\ trends = <<>>
    /\ forecasts = <<>>
    /\ forecast_days \in 0..MaxHorizon
    /\ error = "none"
    /\ result = "none"

\* rolling() and mean() build new objects; ts_df is only read
call_simple_moving_average_forecast ==
    /\ pc = "prepared"
    /\ "Moving Average" \notin DOMAIN forecasts
    /\ forecasts' = forecasts @@
           ("Moving Average" :> SimpleMovingAverageForecast(ts_data, forecast_days, window))
    /\ UNCHANGED <<pc, svars, sales_data, ts_data, trends, forecast_days, error, result>>

\* tail() and .values are read; ts_df is not assigned to
call_linear_trend_forecast ==
    /\ pc = "prepared"
    /\ "Linear Trend" \notin DOMAIN forecasts
    /\ forecasts' = forecasts @@
           ("Linear Trend" :> LinearTrendForecast(ts_data, forecast_days))
    /\ UNCHANGED <<pc, svars, sales_data, ts_data, trends, forecast_days, error, result>>

\* the month and day_of_week columns are written to ts_df.copy(), and the
\* base forecast is a fresh call of linear_trend_forecast
call_seasonal_forecast ==
    /\ pc = "prepared"
    /\ "Seasonal" \notin DOMAIN forecasts
    /\ forecasts' = forecasts @@
           ("Seasonal" :> SeasonalForecast(ts_data, forecast_days))
    /\ UNCHANGED <<pc, svars, sales_data, ts_data, trends, forecast_days, error, result>>

NextMethods ==
    \/ prepare_time_series
    \/ call_simple_moving_average_forecast
    \/ call_linear_trend_forecast
    \/ call_seasonal_forecast

SpecMethods == InitMethods /\ [][NextMethods]_vars

----------------------------------------------------------------------------
(* Either program: a run of run_complete_analysis or a run of              *)
(* run_complete_forecast                                                   *)

InitRuns == Init \/ InitForecast

NextRuns == Next \/ NextForecast

SpecRuns == InitRuns /\ [][NextRuns]_vars

----------------------------------------------------------------------------
(* Properties *)

\* The rule cascade as a table: rule k applies to (r, f, m), and the
\* segment rule k names.
RuleApplies(k, r, f, m) ==
    CASE k = 1  -> r >= 4 /\ f >= 4 /\ m >= 4
      [] k = 2  -> r >= 3 /\ f >= 4
      [] k = 3  -> r >= 4 /\ 2 <= f /\ f <= 3
      [] k = 4  -> r >= 4 /\ f <= 2
      [] k = 5  -> r >= 3 /\ 2 <= f /\ f <= 3
      [] k = 6  -> 2 <= r /\ r <= 3
      [] k = 7  -> r >= 2 /\ f >= 2
      [] k = 8  -> f >= 4 /\ m >= 4
      [] k = 9  -> m >= 4
      [] k = 10 -> TRUE

RuleSegment ==
    << "Champions", "Loyal Customers", "Potential Loyalists", "New Customers",
       "Promising", "Need Attention", "About to Sleep", "At Risk",
       "Cannot Lose Them", "Hibernating" >>

FirstRule(r, f, m) == MinOf({k \in 1..10 : RuleApplies(k, r, f, m)})

SegmentNames == Range(RuleSegment)

Scored == pc \in {"scored", "segmented", "analyzed", "done"}
Segmented == pc \in {"segmented", "analyzed", "done"}

\* C1: every row's Segment is the segment of the first rule of the ten-rule
\* cascade that applies to its (R_Score, F_Score, M_Score); (5,5,5) is
\* Champions and (5,5,1) is Loyal Customers.
C1_FirstMatchingRule ==
    Segmented =>
        \A i \in DOMAIN segments :
            LET row == segments[i]
            IN  /\ row.Segment = RuleSegment[FirstRule(row.R_Score, row.F_Score, row.M_Score)]
                /\ (row.R_Score = 5 /\ row.F_Score = 5 /\ row.M_Score = 5)
                       => row.Segment = "Champions"
                /\ (row.R_Score = 5 /\ row.F_Score = 5 /\ row.M_Score = 1)
                       => row.Segment = "Loyal Customers"

C1_Witness ==
    /\ Segmented
    /\ \E i \in DOMAIN segments :
          /\ segments[i].R_Score = 5 /\ segments[i].F_Score = 5
          /\ segments[i].M_Score = 1
          /\ segments[i].Segment = "Loyal Customers"

\* C2: classification never exhausts: after create_customer_segments every
\* row of the score table has a row with one Segment, and it is one of the
\* ten segment names.
C2_NeverExhausts ==
    Segmented =>
        /\ Len(segments) = Len(rfm_scores)
        /\ \A i \in DOMAIN segments :
              /\ segments[i].customer_id = rfm_scores[i].customer_id
              /\ segments[i].Segment \in SegmentNames
              /\ Cardinality({g \in SegmentNames : g = segments[i].Segment}) = 1

C2_Witness ==
    /\ Segmented
    /\ \E i \in DOMAIN segments :
          /\ segments[i].R_Score = 1 /\ segments[i].F_Score = 3
          /\ segments[i].M_Score = 2
          /\ segments[i].Segment = "Hibernating"

\* C3: in the cohort A(1, 10, 2000), B(200, 1, 50), C(30, 4, 600) scoring
\* succeeds, A has the highest and B the lowest score on each of the three
\* dimensions, A is classified Champions and B Hibernating.
C3_ScenarioCohort ==
    rfm_metrics = ScenarioCohort =>
        /\ pc # "failed"
        /\ Scored =>
              \A name \in {"R_Score", "F_Score", "M_Score"} :
                  /\ rfm_scores[1][name] > rfm_scores[3][name]
                  /\ rfm_scores[3][name] > rfm_scores[2][name]
        /\ Segmented =>
              /\ segments[1].Segment = "Champions"
              /\ segments[2].Segment = "Hibernating"

C3_Witness ==
    /\ rfm_metrics = ScenarioCohort
    /\ pc = "segmented"
    /\ segments[1].Segment = "Champions"

\* the customers of the score table whose score in column name is b
Bin(name, b) == {i \in DOMAIN rfm_scores : rfm_scores[i][name] = b}

DistinctIn(df, name) == Cardinality({df[i][name] : i \in DOMAIN df})

\* C4: with 100 customers of pairwise distinct Monetary, scoring succeeds,
\* each M_Score 1..5 is given to exactly 20 customers, and the customers
\* with M_Score 5 are the 20 with the highest Monetary.
C4_HundredDistinctMonetary ==
    (Len(rfm_metrics) = 100 /\ DistinctIn(rfm_metrics, "Monetary") = 100 /\ pc # "metrics") =>
        /\ Scored
        /\ \A b \in 1..5 : Cardinality(Bin("M_Score", b)) = 20
        /\ \A i \in Bin("M_Score", 5) : \A j \in DOMAIN rfm_scores :
              j \notin Bin("M_Score", 5) => rfm_scores[i].Monetary > rfm_scores[j].Monetary

C4_Witness ==
    /\ Len(rfm_metrics) = 100
    /\ DistinctIn(rfm_metrics, "Monetary") = 100
    /\ pc = "scored"
    /\ Cardinality(Bin("M_Score", 5)) = 20

\* C5: with 100 customers of pairwise distinct Recency, R_Score 5 goes to
\* exactly the 20 customers of lowest Recency and R_Score 1 to the 20 of
\* highest Recency, while F_Score 5 and M_Score 5 go to the highest
\* Frequency and Monetary.
C5_RecencyInverted ==
    (Len(rfm_metrics) = 100 /\ DistinctIn(rfm_metrics, "Recency") = 100 /\ Scored) =>
        /\ Cardinality(Bin("R_Score", 5)) = 20
        /\ Cardinality(Bin("R_Score", 1)) = 20
        /\ \A i, j \in DOMAIN rfm_scores :
              /\ (rfm_scores[i].R_Score = 5 /\ rfm_scores[j].R_Score # 5)
                     => rfm_scores[i].Recency < rfm_scores[j].Recency
              /\ (rfm_scores[i].R_Score = 1 /\ rfm_scores[j].R_Score # 1)
                     => rfm_scores[i].Recency > rfm_scores[j].Recency
              /\ (rfm_scores[i].F_Score = 5 /\ rfm_scores[j].F_Score # 5)
                     => rfm_scores[i].Frequency >= rfm_scores[j].Frequency
              /\ (rfm_scores[i].M_Score = 5 /\ rfm_scores[j].M_Score # 5)
                     => rfm_scores[i].Monetary >= rfm_scores[j].Monetary

C5_Witness ==
    /\ Len(rfm_metrics) = 100
    /\ DistinctIn(rfm_metrics, "Recency") = 100
    /\ pc = "scored"
    /\ \E i \in Bin("R_Score", 5) : \A j \in DOMAIN rfm_scores :
          rfm_scores[i].Recency <= rfm_scores[j].Recency

\* C6: in a cohort whose size is a multiple of 5, each of the 5 bins of
\* each of the three scores holds exactly one fifth of the customers, also
\* when customers tie on a metric.
C6_EqualBinsWithTies ==
    (pc = "scored" /\ Len(rfm_scores) % 5 = 0) =>
        \A name \in {"R_Score", "F_Score", "M_Score"} : \A b \in 1..5 :
            5 * Cardinality(Bin(name, b)) = Len(rfm_scores)

\* C7: a non-empty cohort in which some metric has fewer than 5 distinct
\* values does not make create_rfm_scores end in an error.
C7_DegenerateCohortScored ==
    (/\ Len(rfm_metrics) > 0
     /\ \E name \in MetricNames : DistinctIn(rfm_metrics, name) < 5
     /\ pc # "metrics")
        => (Scored /\ Len(rfm_scores) = Len(rfm_metrics))

\* the digit a character stands for
DigitOf(c) == CHOOSE d \in 0..9 : DigitChars[d + 1] = c

\* C8: whenever create_rfm_scores has returned, every customer of the
\* cohort has R_Score, F_Score and M_Score in 1..5 and an RFM_Score of three
\* characters, the digits of R_Score, F_Score and M_Score in that order.
C8_ScoresInRange ==
    Scored =>
        /\ Len(rfm_scores) = Len(rfm_metrics)
        /\ \A i \in DOMAIN rfm_scores :
              LET row == rfm_scores[i]
              IN  /\ row.customer_id = rfm_metrics[i].customer_id
                  /\ row.R_Score \in 1..5
                  /\ row.F_Score \in 1..5
                  /\ row.M_Score \in 1..5
                  /\ Len(row.RFM_Score) = 3
                  /\ DigitOf(row.RFM_Score[1]) = row.R_Score
                  /\ DigitOf(row.RFM_Score[2]) = row.F_Score
                  /\ DigitOf(row.RFM_Score[3]) = row.M_Score

C8_Witness ==
    /\ pc = "scored"
    /\ \E i \in DOMAIN rfm_scores :
          /\ rfm_scores[i].R_Score = 5
          /\ rfm_scores[i].F_Score = 1
          /\ rfm_scores[i].RFM_Score[1] = "5"
          /\ rfm_scores[i].RFM_Score[2] = "1"

\* C9: when the extract is empty, the run fails in calculate_rfm_metrics,
\* before create_rfm_scores is invoked, and returns no result.
C9_EmptyInputStopsBeforeScoring ==
    (customer_data = <<>> /\ pc \notin {"start", "extracted"}) =>
        /\ pc = "failed"
        /\ error = "calculate_rfm_metrics"
        /\ result = "none"

\* the transactions of customer c in the extract
TransactionsOf(c) == {i \in DOMAIN customer_data : customer_data[i].customer_id = c}

RECURSIVE TotalOver(_)
TotalOver(I) ==
    IF I = {} THEN 0
    ELSE LET i == CHOOSE i \in I : TRUE
         IN  customer_data[i].order_total + TotalOver(I \ {i})

MetricsDone == pc \notin {"start", "extracted"}

\* one row per customer of the extract and none for any other, Frequency
\* the number of the customer's transactions, Frequency summing to the
\* number of transactions
OneRowPerCustomer ==
    /\ \A c \in Customers :
          Cardinality({k \in DOMAIN rfm_metrics : rfm_metrics[k].customer_id = c})
              = IF TransactionsOf(c) = {} THEN 0 ELSE 1
    /\ \A k \in DOMAIN rfm_metrics :
          /\ rfm_metrics[k].customer_id \in Customers
          /\ rfm_metrics[k].Frequency = Cardinality(TransactionsOf(rfm_metrics[k].customer_id))
    /\ SumSeq(Column(rfm_metrics, "Frequency")) = Len(customer_data)

\* C10 as stated: Monetary is the sum of the customer's order_total values.
C10_MonetaryIsExactSum ==
    MetricsDone =>
        /\ OneRowPerCustomer
        /\ \A k \in DOMAIN rfm_metrics :
              rfm_metrics[k].Monetary = TotalOver(TransactionsOf(rfm_metrics[k].customer_id))

\* C10 amended: Monetary is the sum of the customer's order_total values
\* rounded to 2 decimals: a whole number of hundredths at most half a
\* hundredth away from the sum.
C10_MonetaryIsRoundedSum ==
    MetricsDone =>
        /\ OneRowPerCustomer
        /\ \A k \in DOMAIN rfm_metrics :
              LET total == TotalOver(TransactionsOf(rfm_metrics[k].customer_id))
              IN  /\ rfm_metrics[k].Monetary % 10 = 0
                  /\ rfm_metrics[k].Monetary - total <= 5
                  /\ total - rfm_metrics[k].Monetary <= 5

C10_Witness ==
    /\ pc = "metrics"
    /\ \E k \in DOMAIN rfm_metrics :
          /\ rfm_metrics[k].Frequency >= 2
          /\ rfm_metrics[k].Monetary # TotalOver(TransactionsOf(rfm_metrics[k].customer_id))
    /\ \E c \in Customers : TransactionsOf(c) = {}

\* the smallest days_since_order of customer c: the time from the customer's
\* most recent transaction to the reference time
SinceLastOrder(c) ==
    MinOf({customer_data[i].days_since_order : i \in TransactionsOf(c)})

\* C11: every Recency is a non-negative whole number of days, the floor of
\* the time between the reference time and the customer's most recent
\* transaction, and 0 when that transaction is at or after the reference
\* time.
C11_RecencyWholeDays ==
    MetricsDone =>
        \A k \in DOMAIN rfm_metrics :
            LET since == SinceLastOrder(rfm_metrics[k].customer_id)
            IN  /\ rfm_metrics[k].Recency >= 0
                /\ rfm_metrics[k].Recency % 1000 = 0
                /\ rfm_metrics[k].Recency =
                       IF since <= 0 THEN 0 ELSE 1000 * (since \div 1000)

----------------------------------------------------------------------------
(* Properties of the sales forecasting module *)

\* prepare_time_series has returned its frame for sales_data
Prepared == pc = "prepared" /\ sales_data # <<>>

FeedDates == {sales_data[i].date : i \in DOMAIN sales_data}

\* C12: for a frame of daily rows with distinct dates, in any row order,
\* prepare_time_series returns one row for every calendar day from the
\* earliest to the latest date, in ascending order; a day that has a row in
\* the input keeps its daily_sales, order_count and avg_order_value, and a
\* day without one has 0 in all three.
C12_DenseFill ==
    /\ (pc = "failed" /\ ts_data = <<>>) => sales_data = <<>>
    /\ Prepared =>
           /\ Len(ts_data) = MaxOf(FeedDates) - MinOf(FeedDates) + 1
           /\ \A t \in DOMAIN ts_data :
                  /\ ts_data[t].index = MinOf(FeedDates) + t - 1
                  /\ \A i \in DOMAIN sales_data :
                         sales_data[i].date = ts_data[t].index =>
                             /\ ts_data[t].daily_sales = sales_data[i].daily_sales
                             /\ ts_data[t].order_count = sales_data[i].order_count
                             /\ ts_data[t].avg_order_value = sales_data[i].avg_order_value
                  /\ ts_data[t].index \notin FeedDates =>
                         /\ ts_data[t].daily_sales = 0
                         /\ ts_data[t].order_count = 0
                         /\ ts_data[t].avg_order_value = Whole(0)

\* an input whose rows are out of date order and leave a day out
C12_Witness ==
    /\ Prepared
    /\ Len(sales_data) >= 2
    /\ sales_data[1].date > sales_data[2].date
    /\ Len(ts_data) > Len(sales_data)
    /\ \E t \in DOMAIN ts_data : ts_data[t].daily_sales > 0

\* C13: preparing the series that prepare_time_series produced yields the
\* same series again, without an error.
C13_DenseFillIdempotent ==
    [][prepare_time_series_again => (error' = "none" /\ ts_data' = ts_data)]_vars

\* the three forecasts of the run are in the dictionary
Forecasted == pc \in {"forecasted", "f_done"}

\* C14: no value of the linear-trend forecast or of the seasonal forecast
\* is negative: every one of them is >= 0, whatever the history and the
\* horizon.
C14_ForecastsNonNegative ==
    Forecasted =>
        \A i \in 1..forecast_days :
            /\ FNonNegative(forecasts["Linear Trend"][i])
            /\ FNonNegative(forecasts["Seasonal"][i])

\* the history the trend is fitted to: the last 90 days of sales
TrendHistory == TailOf(Sales(ts_data), TrendDays)

\* the least-squares line through the points (0, y[1]), ..., (n - 1, y[n])
\* at x: mean(y) + slope * (x - (n - 1) / 2), where slope is
\* 6 * A / (n * (n * n - 1)) and A is the sum of y[i] * (2 * (i - 1) - (n - 1))
TrendLineAt(y, x) ==
    LET n == Len(y)
        A == SumSeq([i \in 1..n |-> y[i] * (2 * (i - 1) - (n - 1))])
        slope == FDiv(Whole(6 * A), Whole(n * (n * n - 1)))
    IN  FAdd(MeanOf(y), FMul(slope, Rat(2 * x - (n - 1), 2)))

\* the sum of daily_sales over the rows numbered in I
SalesOver(I) ==
    SumSeq([k \in 1..Cardinality(I) |-> ts_data[SortedKeys(I)[k]].daily_sales])

\* the mean of the history rows whose column col is v, divided by the mean
\* of the whole history; 1 when no row has that value
RatioFor(col, v) ==
    LET I == {t \in DOMAIN ts_data : ts_data[t][col] = v}
    IN  IF I = {} THEN Whole(1)
        ELSE FDiv(Rat(SalesOver(I), Cardinality(I)),
                  Rat(SalesOver(DOMAIN ts_data), Len(ts_data)))

\* the seasonal factor of calendar day d
SeasonalFactorOn(d) ==
    FDiv(FAdd(RatioFor("month", MonthOf(d)), RatioFor("day_of_week", DayOfWeek(d))),
         Whole(2))

LastDate == ts_data[Len(ts_data)].index

\* C15: each of the three forecasts has exactly forecast_days entries, and
\* the i-th entry is the forecast for the i-th day after the last date of
\* the history: the moving average is the same for every day, the trend
\* line is read i steps after its last point, and the seasonal factor is
\* that of the calendar day LastDate + i.
C15_OneEntryPerFutureDay ==
    Forecasted =>
        /\ DOMAIN forecasts = {"Moving Average", "Linear Trend", "Seasonal"}
        /\ \A m \in DOMAIN forecasts : Len(forecasts[m]) = forecast_days
        /\ \A i \in 1..forecast_days :
               /\ forecasts["Moving Average"][i] = forecasts["Moving Average"][1]
               /\ forecasts["Linear Trend"][i] =
                      FMax0(TrendLineAt(TrendHistory, Len(TrendHistory) - 1 + i))
               /\ forecasts["Seasonal"][i] =
                      FMul(forecasts["Linear Trend"][i], SeasonalFactorOn(LastDate + i))

\* a horizon of several days whose entries differ from day to day
C15_Witness ==
    /\ pc = "forecasted"
    /\ \E i, j \in 1..forecast_days :
           /\ i < j
           /\ IsNum(forecasts["Seasonal"][i]) /\ IsNum(forecasts["Seasonal"][j])
           /\ forecasts["Linear Trend"][i] # forecasts["Linear Trend"][j]
           /\ SeasonalFactorOn(LastDate + i) # SeasonalFactorOn(LastDate + j)
           /\ SeasonalFactorOn(LastDate + i) # SeasonalFactorOn(LastDate + i - 1)

\* C16: the moving-average forecast is constant: for a history of at least
\* window (30) days, every entry equals the mean of the last 30 days of
\* daily_sales.
C16_MovingAverageConstant ==
    (pc \in {"averaged", "projected"} /\ Len(ts_data) >= window) =>
        /\ Len(forecasts["Moving Average"]) = forecast_days
        /\ \A i \in 1..forecast_days :
               forecasts["Moving Average"][i] =
                   Rat(SumSeq(TailOf(Sales(ts_data), window)), window)

\* a history longer than the window whose last 30 days differ from the rest
C16_Witness ==
    /\ pc = "averaged"
    /\ Len(ts_data) > window
    /\ forecast_days >= 2
    /\ forecasts["Moving Average"][2] # MeanOf(Sales(ts_data))
    /\ FGreater(forecasts["Moving Average"][2], Whole(0))

\* C17: the linear-trend forecast depends only on the last n = min(90, len)
\* days: its i-th value is max(0, slope * (n + i - 1) + intercept) for the
\* least-squares line over the points (0 .. n - 1, those n days), and it is
\* the forecast the same days give without the days before them.
C17_TrendOverLast90Days ==
    pc = "projected" =>
        /\ Len(TrendHistory) = IF Len(ts_data) < TrendDays THEN Len(ts_data) ELSE TrendDays
        /\ \A i \in 1..forecast_days :
               forecasts["Linear Trend"][i] =
                   FMax0(TrendLineAt(TrendHistory, Len(TrendHistory) + i - 1))
        /\ forecasts["Linear Trend"] =
               LinearTrendForecast(TailOf(ts_data, TrendDays), forecast_days)

\* a history of more than 90 days whose trend over all days is another one
C17_Witness ==
    /\ pc = "projected"
    /\ Len(ts_data) > TrendDays
    /\ forecast_days >= 1
    /\ FGreater(forecasts["Linear Trend"][1], Whole(0))
    /\ forecasts["Linear Trend"][1] #
           FMax0(TrendLineAt(Sales(ts_data), Len(ts_data)))

\* the days before the last 30, at most 30 of them: iloc[-60:-30]
PreviousDays ==
    {t \in DOMAIN ts_data : Len(ts_data) - 2 * window < t /\ t <= Len(ts_data) - window}

\* C20: when the mean of the previous 30 days is exactly 0, last_30d_growth
\* is 0; when it is positive, last_30d_growth is
\* (recent - previous) / previous * 100, recent being the mean of the last
\* 30 days.
C20_GrowthGuard ==
    (pc \in {"trended", "averaged", "projected"} /\ PreviousDays # {}) =>
        LET previous == Rat(SalesOver(PreviousDays), Cardinality(PreviousDays))
            recent == MeanOf(TailOf(Sales(ts_data), window))
        IN  /\ previous = Whole(0) => trends.growth.last_30d_growth = Whole(0)
            /\ FGreater(previous, Whole(0)) =>
                   trends.growth.last_30d_growth =
                       FMul(FDiv(FSub(recent, previous), previous), Whole(100))

\* sales in the last 30 days after 30 days without any
C20_Witness ==
    /\ pc = "trended"
    /\ Cardinality(PreviousDays) = window
    /\ SalesOver(PreviousDays) = 0
    /\ FGreater(trends.growth.current_avg, Whole(0))
    /\ trends.growth.last_30d_growth = Whole(0)

MonthsSeen == {ts_data[t].month : t \in DOMAIN ts_data}

WeekdaysSeen == {ts_data[t].day_of_week : t \in DOMAIN ts_data}

\* C18: each seasonal value is the linear-trend value of the same day times
\* the average of two ratios: the mean sales of the day's month over the
\* overall mean, and the mean sales of the day's weekday over the overall
\* mean; a month or a weekday that does not occur in the history counts
\* as 1.0.
C18_SeasonalIsTrendTimesFactor ==
    Forecasted =>
        \A i \in 1..forecast_days :
            LET date == LastDate + i
                month_factor ==
                    IF MonthOf(date) \in MonthsSeen
                    THEN RatioFor("month", MonthOf(date)) ELSE Whole(1)
                dow_factor ==
                    IF DayOfWeek(date) \in WeekdaysSeen
                    THEN RatioFor("day_of_week", DayOfWeek(date)) ELSE Whole(1)
            IN  forecasts["Seasonal"][i] =
                    FMul(LinearTrendForecast(ts_data, forecast_days)[i],
                         FDiv(FAdd(month_factor, dow_factor), Whole(2)))

\* a day of a month the history does not have, on a weekday it has, and a
\* day whose month and weekday both occur in the history
C18_Witness ==
    /\ pc = "forecasted"
    /\ \E i \in 1..forecast_days :
           /\ MonthOf(LastDate + i) \notin MonthsSeen
           /\ DayOfWeek(LastDate + i) \in WeekdaysSeen
           /\ RatioFor("day_of_week", DayOfWeek(LastDate + i)) # Whole(1)
           /\ FGreater(forecasts["Seasonal"][i], Whole(0))
           /\ forecasts["Seasonal"][i] # forecasts["Linear Trend"][i]

\* C19: when the overall mean of the history is 0, the seasonal factors are
\* 1.0 and every seasonal value is a finite number, never NaN or infinite.
C19_FactorsGuarded ==
    (Forecasted /\ MeanOf(Sales(ts_data)) = Whole(0)) =>
        /\ \A m \in MonthsSeen : SeasonalFactors(ts_data, "month")[m] = Whole(1)
        /\ \A w \in WeekdaysSeen : SeasonalFactors(ts_data, "day_of_week")[w] = Whole(1)
        /\ \A i \in 1..forecast_days : IsNum(forecasts["Seasonal"][i])

\* analyze_trends has returned the trends of ts_data
Trended == pc \in {"trended", "averaged", "projected", "forecasted", "f_done"}

Weekdays == {t \in DOMAIN ts_data : ts_data[t].is_weekend = 0}

\* C21: when the history has no weekday day, or the mean of its weekday
\* sales is 0, weekend_vs_weekday is a defined number, not an infinite or
\* undefined value.
C21_WeekendRatioGuarded ==
    (Trended /\ (Weekdays = {} \/ SalesOver(Weekdays) = 0)) =>
        IsNum(trends.seasonal.weekend_vs_weekday)

\* the days of the prepared series that have a value k days earlier, that
\* value being 0
NoPriorBase(k) ==
    {t \in DOMAIN ts_data : t > k /\ ts_data[t - k].daily_sales = 0}

\* C22: the 7-day and the 30-day growth of a day whose value 7 (30) days
\* earlier is 0 is a defined result, the same for every such day whether
\* its own value is zero or positive, and never infinite.
C22_GrowthNoPriorBase ==
    (pc # "f_extracted" /\ ts_data # <<>>) =>
        /\ \A t \in NoPriorBase(7) : ts_data[t].sales_growth_7d.k # "inf"
        /\ \A t, u \in NoPriorBase(7) :
               ts_data[t].sales_growth_7d = ts_data[u].sales_growth_7d
        /\ \A t \in NoPriorBase(30) : ts_data[t].sales_growth_30d.k # "inf"
        /\ \A t, u \in NoPriorBase(30) :
               ts_data[t].sales_growth_30d = ts_data[u].sales_growth_30d

\* the score triples that assign_segment maps to the segment named seg
TriplesOf(seg) ==
    {t \in (1..5) \X (1..5) \X (1..5) :
        assign_segment([R_Score |-> t[1], F_Score |-> t[2], M_Score |-> t[3]]) = seg}

\* C24: each of the ten named segments is reachable: for each of them there
\* is a score triple (r, f, m) in 1..5 x 1..5 x 1..5 that assign_segment
\* maps to it.
C24_EverySegmentReachable ==
    Scored => \A seg \in SegmentNames : TriplesOf(seg) # {}

\* the mean of daily_sales over the days of month m of the history
MonthMean(m) ==
    LET I == {t \in DOMAIN ts_data : ts_data[t].month = m}
    IN  Rat(SalesOver(I), Cardinality(I))

\* the largest monthly mean minus the smallest one
MonthlySpread ==
    LET hi == CHOOSE m \in MonthsSeen :
                  \A o \in MonthsSeen : ~FGreater(MonthMean(o), MonthMean(m))
        lo == CHOOSE m \in MonthsSeen :
                  \A o \in MonthsSeen : ~FGreater(MonthMean(m), MonthMean(o))
    IN  FSub(MonthMean(hi), MonthMean(lo))

\* the sum of the monthly means divided by the number of months
MeanOfMonthlyMeans ==
    LET months == SortedKeys(MonthsSeen)
    IN  FDiv(FSum([k \in DOMAIN months |-> MonthMean(months[k])]),
             Whole(Cardinality(MonthsSeen)))

ForecastOf(method, i) ==
    CASE method = "Moving Average" ->
             IF Len(ts_data) < window THEN NaN
             ELSE Rat(SumSeq(TailOf(Sales(ts_data), window)), window)
      [] method = "Linear Trend" ->
             FMax0(TrendLineAt(TrendHistory, Len(TrendHistory) - 1 + i))
      [] method = "Seasonal" ->
             FMul(FMax0(TrendLineAt(TrendHistory, Len(TrendHistory) - 1 + i)),
                  SeasonalFactorOn(LastDate + i))

\* C25: the three forecast methods do not interact: a call of any of them
\* leaves the prepared series as it was, and whichever of the others ran
\* before it, each returns the forecast that the series alone determines,
\* so every order of the three calls gives the same three forecasts.
C25_MethodsDoNotInteract ==
    /\ [](pc = "prepared" =>
             \A method \in DOMAIN forecasts :
                 /\ Len(forecasts[method]) = forecast_days
                 /\ \A i \in 1..forecast_days :
                        forecasts[method][i] = ForecastOf(method, i))
    /\ [][pc = "prepared" =>
             /\ ts_data' = ts_data
             /\ \A method \in DOMAIN forecasts :
                    /\ method \in DOMAIN forecasts'
                    /\ forecasts'[method] = forecasts[method]]_vars

\* the seasonal forecast computed first, and all three computed
C25_Witness ==
    /\ pc = "prepared"
    /\ DOMAIN forecasts = {"Seasonal"}
    /\ forecast_days >= 2
    /\ FGreater(forecasts["Seasonal"][2], Whole(0))
    /\ forecasts["Seasonal"][2] # ForecastOf("Linear Trend", 2)

MetricColumns == {"customer_id", "Recency", "Frequency", "Monetary"}

ScoreColumns == MetricColumns \cup {"R_Score", "F_Score", "M_Score", "RFM_Score"}

SalesColumns == {"date", "daily_sales", "order_count", "avg_order_value"}

\* C26: no stage changes the table it is given: when create_rfm_scores,
\* create_customer_segments, analyze_segment_characteristics or
\* prepare_time_series returns, its argument has the rows, columns and
\* values it had before the call: the metrics table has no score columns,
\* the score table no Segment column, the sales table still has its date
\* column and no filled rows.
C26_StagesLeaveTheirInput ==
    /\ [][/\ create_rfm_scores => rfm_metrics' = rfm_metrics
          /\ create_customer_segments => rfm_scores' = rfm_scores
          /\ analyze_segment_characteristics => segments' = segments
          /\ prepare_time_series => sales_data' = sales_data]_vars
    /\ [](/\ \A i \in DOMAIN rfm_metrics : DOMAIN rfm_metrics[i] = MetricColumns
          /\ \A i \in DOMAIN rfm_scores : DOMAIN rfm_scores[i] = ScoreColumns
          /\ \A i \in DOMAIN sales_data : DOMAIN sales_data[i] = SalesColumns
          /\ \A i \in DOMAIN sales_data : sales_data[i].order_count >= 1)

\* a run that has scored, classified and analysed two customers or more
C26_Witness ==
    /\ pc = "analyzed"
    /\ Len(rfm_metrics) >= 2
    /\ Len(segments) = Len(rfm_metrics)
    /\ \A i \in DOMAIN segments : "Segment" \in DOMAIN segments[i]
    /\ \A i \in DOMAIN rfm_scores : "Segment" \notin DOMAIN rfm_scores[i]
    /\ \A i \in DOMAIN rfm_metrics : "R_Score" \notin DOMAIN rfm_metrics[i]

\* C27: the stages of run_complete_analysis happen in the order extract,
\* metrics, scoring, classification, segment analysis: customers are
\* classified only when the whole cohort has its scores, and segment
\* analysis starts only when every customer has a Segment; in
\* run_complete_forecast trends and forecasts are computed only from the
\* prepared series.
C27_StagesInOrder ==
    /\ [](/\ pc \in {"metrics", "scored", "segmented", "analyzed", "done"} =>
                 rfm_metrics = RfmMetrics(customer_data)
          /\ Scored =>
                 /\ Len(rfm_scores) = Len(rfm_metrics)
                 /\ Len(rfm_scores) > 0
                 /\ \A i \in DOMAIN rfm_scores :
                        {rfm_scores[i].R_Score, rfm_scores[i].F_Score,
                         rfm_scores[i].M_Score} \subseteq 1..5
          /\ Segmented =>
                 /\ Len(segments) = Len(rfm_scores)
                 /\ \A i \in DOMAIN segments : segments[i].Segment \in SegmentNames
          /\ (DOMAIN trends # {} \/ DOMAIN forecasts # {}) =>
                 /\ PrepareRaises(sales_data) = "none"
                 /\ ts_data = PrepareTimeSeries(sales_data)
          /\ DOMAIN forecasts # {} => DOMAIN trends # {})
    /\ [][/\ create_customer_segments => (Scored /\ ~Segmented)
          /\ analyze_segment_characteristics => Segmented
          /\ create_rfm_scores => pc = "metrics"
          /\ calculate_rfm_metrics => pc = "extracted"
          /\ (analyze_trends \/ simple_moving_average_forecast \/
              linear_trend_forecast \/ seasonal_forecast) =>
                 ts_data = PrepareTimeSeries(sales_data)]_vars

\* a segment analysis of a classified cohort
C27_Witness ==
    /\ pc = "analyzed"
    /\ Len(segments) >= 2
    /\ DOMAIN segment_analysis # {}

\* segment_analysis is the analysis of segments
Analyzed == pc \in {"analyzed", "done"}

\* the sum of column f of segment_analysis over the segments named
RECURSIVE SumOfAnalysis(_, _)
SumOfAnalysis(names, f) ==
    IF names = {} THEN 0
    ELSE LET g == CHOOSE x \in names : TRUE
         IN  segment_analysis[g][f] + SumOfAnalysis(names \ {g}, f)

TotalMonetary == SumSeq([i \in DOMAIN segments |-> segments[i].Monetary])

\* the analysis has one row for each segment that has a customer, the
\* counts add up to the number of customers and the sums to the total
PartitionsCohort ==
    /\ DOMAIN segment_analysis = {segments[i].Segment : i \in DOMAIN segments}
    /\ \A g \in DOMAIN segment_analysis :
           /\ segment_analysis[g].Customer_Count =
                  Cardinality({i \in DOMAIN segments : segments[i].Segment = g})
           /\ segment_analysis[g].Customer_Count >= 1
    /\ SumOfAnalysis(DOMAIN segment_analysis, "Customer_Count") = Len(segments)
    /\ SumOfAnalysis(DOMAIN segment_analysis, "Monetary_sum") = TotalMonetary

C29_ScoringPreservesOrder ==
    Scored =>
        \A a, b \in DOMAIN rfm_scores :
            /\ rfm_scores[a].Monetary >= rfm_scores[b].Monetary =>
                   rfm_scores[a].M_Score >= rfm_scores[b].M_Score
            /\ rfm_scores[a].Frequency > rfm_scores[b].Frequency =>
                   rfm_scores[a].F_Score >= rfm_scores[b].F_Score
            /\ rfm_scores[a].Recency <= rfm_scores[b].Recency =>
                   rfm_scores[a].R_Score >= rfm_scores[b].R_Score

\* a cohort with ties on Frequency that are split between scores, and with
\* customers of different Monetary and Recency in different bins
C29_Witness ==
    /\ pc = "scored"
    /\ \E a, b \in DOMAIN rfm_scores :
           /\ a > b
           /\ rfm_scores[a].Frequency = rfm_scores[b].Frequency
           /\ rfm_scores[a].F_Score # rfm_scores[b].F_Score
    /\ \E a, b \in DOMAIN rfm_scores :
           /\ a < b
           /\ rfm_scores[a].Frequency > rfm_scores[b].Frequency
           /\ rfm_scores[a].F_Score > rfm_scores[b].F_Score
    /\ \E a, b \in DOMAIN rfm_scores :
           /\ rfm_scores[a].Monetary > rfm_scores[b].Monetary
           /\ rfm_scores[a].M_Score > rfm_scores[b].M_Score
           /\ rfm_scores[a].Recency < rfm_scores[b].Recency
           /\ rfm_scores[a].R_Score > rfm_scores[b].R_Score

\* the second run of the three stages has ended
SecondRunEnded == earlier.ran /\ pc \in {"segmented", "failed"}

====
